---- MODULE Spec2Model ----
(***************************************************************************)
(* Table-booking backend: checkout creation with a pre-payment hold        *)
(* (api/create-checkout.js), the payment webhook (api/webhook.js), the     *)
(* admin manual booking (api/admin-create-booking.js) and the admin delete *)
(* (api/admin-delete-booking.js), all working on one shared store.         *)
(*                                                                         *)
(* Every await of a handler is one step, so that the store reads and       *)
(* writes of concurrent requests interleave.                               *)
(***************************************************************************)
EXTENDS Integers, Sequences, FiniteSets, TLC

(* ------------------------------ bounds -------------------------------- *)

\* the clock runs from 0 to MaxNow, in units of five minutes
MaxNow == 2
\* manual bookings the admin creates in one behaviour of the admin page
MaxAdminBookings == 2
\* manual bookings the admin creates while checkouts or deliveries run
MaxFlowAdminBookings == 1

(* ------------------------- program constants --------------------------- *)

\* create-checkout.js:185  Date.now() + 5 * 60 * 1000: one unit of the clock
HoldDuration == 1
\* create-checkout.js:170 and webhook.js:179  setMinutes(getMinutes() + 120)
BookingMinutes == 120

\* a value that is undefined in the request body or the metadata
NoVal == "undefined"
\* an undefined list and an undefined time string
NoList == << -1 >>
NoTime == << -1, -1 >>

Checkouts == {1, 2}
Deliveries == {1, 2}

(* ----------------------------- time strings ---------------------------- *)
\* "HH:MM" is <<h, m>> and "HH:MM:00" is <<h, m, 0>>: the parts of
\* timeStr.split(':').map(Number).

timeToMinutes(timeStr) == (timeStr[1] * 60) + timeStr[2]

\* Date arithmetic: the start plus 120 minutes, read back with getHours()
\* and getMinutes(), so an end past midnight comes back as a small hour.
calculateBookingEndTime(bookingDate, startTime) ==
    LET total == (startTime[1] * 60) + startTime[2] + BookingMinutes
    IN  << (total \div 60) % 24, total % 60 >>

\* the end time without the wrap of the hour at midnight
endTimeStrNoWrap(booking_time) ==
    LET total == (booking_time[1] * 60) + booking_time[2] + BookingMinutes
    IN  << total \div 60, total % 60, 0 >>

\* webhook.js:175-181: the same addition, formatted with a seconds part
endTimeStr(booking_time) ==
    LET total == (booking_time[1] * 60) + booking_time[2] + BookingMinutes
    IN  << (total \div 60) % 24, total % 60, 0 >>

\* the overlap test with closed interval ends
overlapsInclusive(newBookingStartMinutes, newBookingEndMinutes, hold) ==
    /\ newBookingStartMinutes <= timeToMinutes(hold.end_time)
    /\ newBookingEndMinutes >= timeToMinutes(hold.start_time)

\* create-checkout.js:210-211
overlaps(newBookingStartMinutes, newBookingEndMinutes, hold) ==
    /\ newBookingStartMinutes < timeToMinutes(hold.end_time)
    /\ newBookingEndMinutes > timeToMinutes(hold.start_time)

(* ------------------------ metadata string lists ------------------------ *)
\* table_ids.join(',') of the checkout and metadata.table_ids.split(',') of
\* the webhook.  The joined string is the sequence of its comma-separated
\* tokens; the empty string is <<>>, whose split is one empty token, and
\* Number('') is 0.

EmptyToken == -2
join(table_ids) == table_ids
split(str) == IF str = <<>> THEN << EmptyToken >> ELSE str
Number(tok) == IF tok = EmptyToken THEN 0 ELSE tok

(* ------------------------------ requests ------------------------------- *)

Day1 == "2025-06-01"
Day2 == "2025-06-02"

CheckoutRequest(tables, day, time, tenant, ref, mail, pence) ==
    [table_ids |-> tables, booking_date |-> day, booking_time |-> time,
     tenant_id |-> tenant, booking_ref |-> ref, email |-> mail,
     total_pence |-> pence, receive_offers |-> FALSE]

\* the request bodies the clients send to /api/create-checkout
Req1 == CheckoutRequest(<<5>>, Day1, <<19, 0>>, "t1", "r1", "a@b.com", 1000)
Req2 == [CheckoutRequest(<<5>>, Day1, <<19, 30>>, "t1", "r2", "c@d.com", 1000)
            EXCEPT !.receive_offers = TRUE]
Req3 == CheckoutRequest(<<5, 6>>, Day1, <<21, 0>>, "t1", "r3", "a@b.com", 2000)
Req4 == CheckoutRequest(<<5>>, Day1, <<22, 30>>, "t1", "r4", "c@d.com", 1000)
Req5 == CheckoutRequest(<<5>>, Day2, <<19, 0>>, "t2", "r5", "a@b.com", 1000)

GoodRequests == {Req1, Req2, Req3, Req4, Req5}

BadRequests ==
    { CheckoutRequest(NoList, Day1, <<19, 0>>, "t1", "r1", "a@b.com", 1000),
      CheckoutRequest(<<5>>, Day1, <<19, 0>>, "t1", "r1", NoVal, 1000),
      CheckoutRequest(<<5>>, Day1, <<19, 0>>, "t1", "r1", "a@b.com", 0) }

CheckoutRequests == GoodRequests \cup BadRequests

\* total_pence when the body has none: undefined <= 0 is false
NoAmount == -1

\* bodies with an empty table list, no amount, no tenant id and no booking
\* reference
Req6 == CheckoutRequest(<<5>>, Day1, <<19, 0>>, NoVal, "r1", "a@b.com", 1000)

LooseRequests ==
    { CheckoutRequest(<<>>, Day1, <<19, 0>>, "t1", "r1", "a@b.com", 1000),
      CheckoutRequest(<<5>>, Day1, <<19, 0>>, "t1", "r1", "a@b.com", NoAmount),
      Req6,
      CheckoutRequest(<<5>>, Day1, <<19, 0>>, "t1", NoVal, "a@b.com", 1000) }

\* the bodies sent to the validation of /api/create-checkout
ValidationRequests == {Req1} \cup BadRequests \cup LooseRequests

NoRequest == CheckoutRequest(NoList, NoVal, NoTime, NoVal, NoVal, NoVal, 0)

(* ------------------------------- state --------------------------------- *)

VARIABLES
    now,             \* the wall clock, in units of five minutes
    reserved_holds,  \* rows of the store table reserved_holds
    premium_slots,   \* rows of the store table premium_slots
    nextSlotId,      \* the store's id sequence of premium_slots
    webhook_events,  \* rows of the store table webhook_events
    marketing_optins,\* rows of the store table marketing_optins
    sessions,        \* payment sessions created at the payment provider
    paid,            \* ids of the sessions whose payment completed
    emails,          \* calls of resend.emails.send
    co,              \* the running create-checkout requests
    wh,              \* the running webhook deliveries
    admin,           \* the last admin request and its response
    adminOps,        \* number of manual bookings created so far
    ov               \* an overlap test on its own: inputs and result

vars == << now, reserved_holds, premium_slots, nextSlotId, webhook_events,
           marketing_optins, sessions, paid, emails, co, wh, admin,
           adminOps, ov >>

storeVars == << reserved_holds, premium_slots, nextSlotId, webhook_events,
                marketing_optins >>

IdleCheckout ==
    [pc |-> "idle", req |-> NoRequest, t0 |-> 0, endTime |-> NoTime,
     conflictingTableId |-> 0, status |-> 0, body |-> "none",
     log |-> "none", placed |-> FALSE, after |-> {}]

IdleDelivery ==
    [pc |-> "idle", sig |-> "none", ev |-> 0, i |-> 0, allOK |-> TRUE,
     inserted |-> 0, failed |-> 0, status |-> 0, body |-> "none",
     after |-> {}]

NoAdmin ==
    [op |-> "none", id |-> 0, tenant |-> NoVal, status |-> 0,
     message |-> "none", removed |-> 0]

NoOverlapTest ==
    [ns |-> NoTime, ne |-> NoTime, hs |-> NoTime, he |-> NoTime,
     result |-> "none"]

Init ==
    /\ now = 0
    /\ reserved_holds = {}
    /\ premium_slots = {}
    /\ nextSlotId = 1
    /\ webhook_events = {}
    /\ marketing_optins = {}
    /\ sessions = {}
    /\ paid = {}
    /\ emails = {}
    /\ co = [c \in Checkouts |-> IdleCheckout]
    /\ wh = [d \in Deliveries |-> IdleDelivery]
    /\ admin = NoAdmin
    /\ adminOps = 0
    /\ ov = NoOverlapTest

(* ------------------------------- clock --------------------------------- *)

Tick ==
    /\ now < MaxNow
    /\ now' = now + 1
    /\ UNCHANGED << storeVars, sessions, paid, emails, co, wh, admin,
                    adminOps, ov >>

(* --------------------- api/create-checkout.js -------------------------- *)

\* create-checkout.js:276  !table_ids || total_pence <= 0 || !email
CheckoutInvalid(req) ==
    \/ req.table_ids = NoList
    \/ (req.total_pence # NoAmount /\ req.total_pence <= 0)
    \/ req.email = NoVal

\* the handler up to its first await (lines 261-291, 184-197): validation, the end
\* time, and the two timestamps createReservationHold takes on entry
CheckoutStart(c, req) ==
    /\ co[c].pc = "idle"
    /\ co' = [co EXCEPT ![c] =
                IF CheckoutInvalid(req)
                THEN [@ EXCEPT !.pc = "done", !.req = req, !.status = 400,
                               !.body = "missing_data"]
                ELSE [@ EXCEPT !.pc = "hold_check", !.req = req, !.t0 = now,
                               !.endTime = calculateBookingEndTime(
                                               req.booking_date,
                                               req.booking_time),
                               !.after = {x \in Checkouts : co[x].placed}]]
    /\ UNCHANGED << now, storeVars, sessions, paid, emails, wh, admin,
                    adminOps, ov >>

\* the query without its filter on expires_at
activeHoldsIncludingExpired(tableIdArray, bookingDate, at) ==
    { h \in reserved_holds :
        /\ \E k \in 1..Len(tableIdArray) : h.table_id = tableIdArray[k]
        /\ h.date = bookingDate }

\* the rows the query of create-checkout.js:192-197 returns
activeHolds(tableIdArray, bookingDate, at) ==
    { h \in reserved_holds :
        /\ \E k \in 1..Len(tableIdArray) : h.table_id = tableIdArray[k]
        /\ h.date = bookingDate
        /\ h.expires_at >= at }

\* create-checkout.js:205-214
conflictingHold(fetched, startTime, endTime) ==
    { h \in fetched :
        overlaps(timeToMinutes(startTime), timeToMinutes(endTime), h) }

\* createReservationHold going on to the insert after a failed select
HoldCheckFailOpen(c, checkError) ==
    LET r == co[c].req
        found == conflictingHold(
                     activeHolds(r.table_ids, r.booking_date, co[c].t0),
                     r.booking_time, co[c].endTime)
    IN  /\ co[c].pc = "hold_check"
        /\ \/ /\ checkError
              /\ co' = [co EXCEPT ![c] = [@ EXCEPT !.pc = "hold_insert",
                                            !.log = "Hold Check Error"]]
           \/ /\ ~checkError
              /\ \E h \in found :
                    co' = [co EXCEPT ![c] = [@ EXCEPT !.pc = "done",
                                    !.status = 409, !.body = "hold_conflict",
                                    !.conflictingTableId = h.table_id]]
           \/ /\ ~checkError
              /\ found = {}
              /\ co' = [co EXCEPT ![c] = [@ EXCEPT !.pc = "hold_insert"]]
        /\ UNCHANGED << now, storeVars, sessions, paid, emails, wh, admin,
                        adminOps, ov >>

\* the answer of the select and the overlap filter (lines 192-220), then
\* the handler's 409 (lines 293-300)
HoldCheck(c, checkError) ==
    LET r == co[c].req
        found == conflictingHold(
                     activeHolds(r.table_ids, r.booking_date, co[c].t0),
                     r.booking_time, co[c].endTime)
    IN  /\ co[c].pc = "hold_check"
        /\ \/ /\ checkError
              /\ co' = [co EXCEPT ![c] = [@ EXCEPT !.pc = "done",
                                            !.status = 409,
                                            !.body = "hold_conflict",
                                            !.log = "Hold Check Error"]]
           \/ /\ ~checkError
              /\ \E h \in found :
                    co' = [co EXCEPT ![c] = [@ EXCEPT !.pc = "done",
                                    !.status = 409, !.body = "hold_conflict",
                                    !.conflictingTableId = h.table_id]]
           \/ /\ ~checkError
              /\ found = {}
              /\ co' = [co EXCEPT ![c] = [@ EXCEPT !.pc = "hold_insert"]]
        /\ UNCHANGED << now, storeVars, sessions, paid, emails, wh, admin,
                        adminOps, ov >>

\* a row for the first requested table only
holdRecordsFirstTableOnly(c, r, t0, endTime) ==
    { [table_id |-> r.table_ids[k], tenant_id |-> r.tenant_id,
       expires_at |-> t0 + HoldDuration,
       booking_ref |-> r.booking_ref, date |-> r.booking_date,
       start_time |-> r.booking_time, end_time |-> endTime,
       by |-> c] : k \in 1..(IF Len(r.table_ids) > 0 THEN 1 ELSE 0) }

\* create-checkout.js:185 and 223-231; the row also carries the request
\* that wrote it, as the store's row identity
holdRecords(c, r, t0, endTime) ==
    { [table_id |-> r.table_ids[k], tenant_id |-> r.tenant_id,
       expires_at |-> t0 + HoldDuration,
       booking_ref |-> r.booking_ref, date |-> r.booking_date,
       start_time |-> r.booking_time, end_time |-> endTime,
       by |-> c] : k \in 1..Len(r.table_ids) }

\* a batch insert that, when it fails, has already written its first row
HoldInsertPartialBatch(c, insertError) ==
    /\ co[c].pc = "hold_insert"
    /\ IF insertError
       THEN /\ co' = [co EXCEPT ![c] = [@ EXCEPT !.pc = "done",
                                          !.status = 409,
                                          !.body = "hold_conflict",
                                          !.log = "Hold Insert Error"]]
            /\ reserved_holds' = reserved_holds \cup
                   holdRecordsFirstTableOnly(c, co[c].req, co[c].t0,
                                             co[c].endTime)
       ELSE /\ reserved_holds' = reserved_holds \cup
                      holdRecords(c, co[c].req, co[c].t0, co[c].endTime)
            /\ co' = [co EXCEPT ![c] = [@ EXCEPT !.pc = "session",
                                          !.placed = TRUE]]
    /\ UNCHANGED << now, premium_slots, nextSlotId, webhook_events,
                    marketing_optins, sessions, paid, emails, wh, admin,
                    adminOps, ov >>

\* createReservationHold from the insert on (lines 233-244) and the
\* handler's branch on its result (lines 293-300)
HoldInsert(c, insertError) ==
    /\ co[c].pc = "hold_insert"
    /\ IF insertError
       THEN /\ co' = [co EXCEPT ![c] = [@ EXCEPT !.pc = "done",
                                          !.status = 409,
                                          !.body = "hold_conflict",
                                          !.log = "Hold Insert Error"]]
            /\ UNCHANGED reserved_holds
       ELSE /\ reserved_holds' = reserved_holds \cup
                      holdRecords(c, co[c].req, co[c].t0, co[c].endTime)
            /\ co' = [co EXCEPT ![c] = [@ EXCEPT !.pc = "session",
                                          !.placed = TRUE]]
    /\ UNCHANGED << now, premium_slots, nextSlotId, webhook_events,
                    marketing_optins, sessions, paid, emails, wh, admin,
                    adminOps, ov >>

\* create-checkout.js:323-334
sessionMetadata(r, calculatedEndTime) ==
    [table_ids |-> join(r.table_ids), booking_date |-> r.booking_date,
     booking_time |-> r.booking_time,
     booking_end_time |-> calculatedEndTime, tenant_id |-> r.tenant_id,
     booking_ref |-> IF r.booking_ref = NoVal THEN "N/A" ELSE r.booking_ref,
     receive_offers |-> IF r.receive_offers THEN "TRUE" ELSE "FALSE",
     email |-> r.email]

\* stripe.checkout.sessions.create and the response (lines 317-345); the
\* provider rejects price_data without a unit_amount
CreateSession(c, stripeError) ==
    /\ co[c].pc = "session"
    /\ IF stripeError \/ co[c].req.total_pence = NoAmount
       THEN /\ co' = [co EXCEPT ![c] = [@ EXCEPT !.pc = "done",
                                          !.status = 500,
                                          !.body = "internal_error",
                                          !.log = "Stripe Checkout Creation Error"]]
            /\ UNCHANGED sessions
       ELSE /\ sessions' = sessions \cup
                              {[id |-> c, metadata |->
                                    sessionMetadata(co[c].req, co[c].endTime)]}
            /\ co' = [co EXCEPT ![c] = [@ EXCEPT !.pc = "done",
                                          !.status = 200, !.body = "url"]]
    /\ UNCHANGED << now, storeVars, paid, emails, wh, admin, adminOps, ov >>

\* the handler on request bodies drawn from a set
CheckoutWith(bodies) ==
    \E c \in Checkouts :
        \/ \E req \in bodies : CheckoutStart(c, req)
        \/ \E e \in BOOLEAN : HoldCheck(c, e)
        \/ \E e \in BOOLEAN : HoldInsert(c, e)
        \/ \E e \in BOOLEAN : CreateSession(c, e)

Checkout == CheckoutWith(CheckoutRequests)

(* ------------------------- payment provider ---------------------------- *)

\* the customer pays a session: the provider has a checkout.session.completed
\* event for it, which it delivers to the webhook
Pay(c) ==
    /\ \E x \in sessions : x.id = c
    /\ c \notin paid
    /\ paid' = paid \cup {c}
    /\ UNCHANGED << now, storeVars, sessions, emails, co, wh, admin,
                    adminOps, ov >>

\* an event of another type, and the completed event of a session that
\* admin-delete-booking.js:145-164 creates with metadata { booking_id } only
OtherEvent == 3
ForeignEvent == 4

NoMetadata ==
    [table_ids |-> NoList, booking_date |-> NoVal, booking_time |-> NoTime,
     booking_end_time |-> NoTime, tenant_id |-> NoVal, booking_ref |-> NoVal,
     receive_offers |-> NoVal, email |-> NoVal]

EventIds == paid \cup {OtherEvent, ForeignEvent}

EventType(e) ==
    IF e = OtherEvent THEN "payment_intent.succeeded"
    ELSE "checkout.session.completed"

EventMetadata(e) ==
    IF e \in {OtherEvent, ForeignEvent} THEN NoMetadata
    ELSE (CHOOSE x \in sessions : x.id = e).metadata

(* --------------------------- api/webhook.js ---------------------------- *)

\* the handler reading the event without verifying the signature
WebhookReceiveUnverified(d, e, signatureOK) ==
    /\ wh[d].pc = "idle"
    /\ wh' = [wh EXCEPT ![d] =
                [@ EXCEPT !.pc = "lookup", !.ev = e,
                          !.sig = IF signatureOK THEN "ok" ELSE "bad",
                          !.after = {x \in Deliveries : wh[x].pc = "done"}]]
    /\ UNCHANGED << now, storeVars, sessions, paid, emails, co, admin,
                    adminOps, ov >>

\* webhook.js:115-128  constructEvent over the raw body; sig records
\* whether the stripe-signature header verified
WebhookReceive(d, e, signatureOK) ==
    /\ wh[d].pc = "idle"
    /\ wh' = [wh EXCEPT ![d] =
                IF signatureOK
                THEN [@ EXCEPT !.pc = "lookup", !.ev = e, !.sig = "ok",
                               !.after = {x \in Deliveries :
                                            wh[x].pc = "done"}]
                ELSE [@ EXCEPT !.pc = "done", !.status = 400,
                               !.sig = "bad", !.body = "Webhook Error"]]
    /\ UNCHANGED << now, storeVars, sessions, paid, emails, co, admin,
                    adminOps, ov >>

existingEvent(eventId) ==
    { w \in webhook_events : w.stripe_event_id = eventId }

\* the handler without the filter on event.type
WebhookIdempotencyNoTypeFilter(d, selectError) ==
    /\ wh[d].pc = "lookup"
    /\ wh' = [wh EXCEPT ![d] =
                IF selectError
                THEN [@ EXCEPT !.pc = "done", !.status = 500,
                               !.body = "Could not check event"]
                ELSE IF existingEvent(wh[d].ev) # {}
                THEN [@ EXCEPT !.pc = "done", !.status = 200,
                               !.body = "received"]
                ELSE [@ EXCEPT !.pc = "log"]]
    /\ UNCHANGED << now, storeVars, sessions, paid, emails, co, admin,
                    adminOps, ov >>

\* the handler taking only a completed ledger row for a duplicate
WebhookIdempotencyRetryProcessing(d, selectError) ==
    /\ wh[d].pc = "lookup"
    /\ wh' = [wh EXCEPT ![d] =
                IF selectError
                THEN [@ EXCEPT !.pc = "done", !.status = 500,
                               !.body = "Could not check event"]
                ELSE IF \E w \in existingEvent(wh[d].ev) :
                           w.status = "completed"
                THEN [@ EXCEPT !.pc = "done", !.status = 200,
                               !.body = "received"]
                ELSE IF EventType(wh[d].ev) = "checkout.session.completed"
                THEN [@ EXCEPT !.pc = "log"]
                ELSE [@ EXCEPT !.pc = "done", !.status = 200,
                               !.body = "received"]]
    /\ UNCHANGED << now, storeVars, sessions, paid, emails, co, admin,
                    adminOps, ov >>

\* the handler without the branch on existingEvent
WebhookIdempotencyNoDuplicateBranch(d, selectError) ==
    /\ wh[d].pc = "lookup"
    /\ wh' = [wh EXCEPT ![d] =
                IF selectError
                THEN [@ EXCEPT !.pc = "done", !.status = 500,
                               !.body = "Could not check event"]
                ELSE IF EventType(wh[d].ev) = "checkout.session.completed"
                THEN [@ EXCEPT !.pc = "log"]
                ELSE [@ EXCEPT !.pc = "done", !.status = 200,
                               !.body = "received"]]
    /\ UNCHANGED << now, storeVars, sessions, paid, emails, co, admin,
                    adminOps, ov >>

\* webhook.js:133-151  the idempotency check and the event-type filter
WebhookIdempotency(d, selectError) ==
    /\ wh[d].pc = "lookup"
    /\ wh' = [wh EXCEPT ![d] =
                IF selectError
                THEN [@ EXCEPT !.pc = "done", !.status = 500,
                               !.body = "Could not check event"]
                ELSE IF existingEvent(wh[d].ev) # {}
                THEN [@ EXCEPT !.pc = "done", !.status = 200,
                               !.body = "received"]
                ELSE IF EventType(wh[d].ev) = "checkout.session.completed"
                THEN [@ EXCEPT !.pc = "log"]
                ELSE [@ EXCEPT !.pc = "done", !.status = 200,
                               !.body = "received"]]
    /\ UNCHANGED << now, storeVars, sessions, paid, emails, co, admin,
                    adminOps, ov >>

\* the store's unique key on webhook_events.stripe_event_id
EventIdTaken(eventId) == existingEvent(eventId) # {}

\* the handler going on to the inserts without writing the ledger row
WebhookLogEventNoRow(d, insertEventError) ==
    /\ wh[d].pc = "log"
    /\ wh' = [wh EXCEPT ![d] =
          IF EventMetadata(wh[d].ev).table_ids = NoList
             \/ EventMetadata(wh[d].ev).booking_time = NoTime
          THEN [@ EXCEPT !.pc = "done", !.status = 500,
                         !.body = "uncaught TypeError"]
          ELSE [@ EXCEPT !.pc = "insert", !.i = 1]]
    /\ UNCHANGED << now, storeVars, sessions, paid, emails, co, admin,
                    adminOps, ov >>

\* the handler going on after insertEventError instead of answering 500
WebhookLogEventIgnoringError(d, insertEventError) ==
    LET e == wh[d].ev
        metadata == EventMetadata(e)
    IN  /\ wh[d].pc = "log"
        /\ webhook_events' =
              IF insertEventError \/ EventIdTaken(e) THEN webhook_events
              ELSE webhook_events \cup
                      {[stripe_event_id |-> e, event_type |-> EventType(e),
                        tenant_id |-> metadata.tenant_id,
                        status |-> "processing"]}
        /\ wh' = [wh EXCEPT ![d] =
              IF metadata.table_ids = NoList
                 \/ metadata.booking_time = NoTime
              THEN [@ EXCEPT !.pc = "done", !.status = 500,
                             !.body = "uncaught TypeError"]
              ELSE [@ EXCEPT !.pc = "insert", !.i = 1]]
        /\ UNCHANGED << now, reserved_holds, premium_slots, nextSlotId,
                        marketing_optins, sessions, paid, emails, co, admin,
                        adminOps, ov >>

\* webhook.js:153-201  the ledger row, then the metadata: table_ids.split
\* and booking_time.split throw on an undefined value and the request dies
\* a handler that sends the staff alert when the ledger insert is rejected
WebhookLogEventAlertOnReject(d, insertEventError) ==
    LET e == wh[d].ev
        metadata == EventMetadata(e)
    IN  /\ wh[d].pc = "log"
        /\ IF insertEventError \/ EventIdTaken(e)
           THEN /\ wh' = [wh EXCEPT ![d] = [@ EXCEPT !.pc = "done",
                                               !.status = 500,
                                               !.body = "Could not log event"]]
                /\ emails' = emails \cup
                      {[kind |-> "staff", type |-> "BOOKING CONFLICT FAIL",
                        ev |-> e, by |-> d]}
                /\ UNCHANGED webhook_events
           ELSE /\ webhook_events' = webhook_events \cup
                      {[stripe_event_id |-> e, event_type |-> EventType(e),
                        tenant_id |-> metadata.tenant_id,
                        status |-> "processing"]}
                /\ wh' = [wh EXCEPT ![d] =
                      IF metadata.table_ids = NoList
                         \/ metadata.booking_time = NoTime
                      THEN [@ EXCEPT !.pc = "done", !.status = 500,
                                     !.body = "uncaught TypeError"]
                      ELSE [@ EXCEPT !.pc = "insert", !.i = 1]]
                /\ UNCHANGED emails
        /\ UNCHANGED << now, reserved_holds, premium_slots, nextSlotId,
                        marketing_optins, sessions, paid, co, admin,
                        adminOps, ov >>

WebhookLogEvent(d, insertEventError) ==
    LET e == wh[d].ev
        metadata == EventMetadata(e)
    IN  /\ wh[d].pc = "log"
        /\ IF insertEventError \/ EventIdTaken(e)
           THEN /\ wh' = [wh EXCEPT ![d] = [@ EXCEPT !.pc = "done",
                                               !.status = 500,
                                               !.body = "Could not log event"]]
                /\ UNCHANGED webhook_events
           ELSE /\ webhook_events' = webhook_events \cup
                      {[stripe_event_id |-> e, event_type |-> EventType(e),
                        tenant_id |-> metadata.tenant_id,
                        status |-> "processing"]}
                /\ wh' = [wh EXCEPT ![d] =
                      IF metadata.table_ids = NoList
                         \/ metadata.booking_time = NoTime
                      THEN [@ EXCEPT !.pc = "done", !.status = 500,
                                     !.body = "uncaught TypeError"]
                      ELSE [@ EXCEPT !.pc = "insert", !.i = 1]]
        /\ UNCHANGED << now, reserved_holds, premium_slots, nextSlotId,
                        marketing_optins, sessions, paid, emails, co, admin,
                        adminOps, ov >>

\* two rows of premium_slots whose [start, end) intervals overlap
SlotsOverlap(a, b) ==
    /\ timeToMinutes(a.start_time) < timeToMinutes(b.end_time)
    /\ timeToMinutes(a.end_time) > timeToMinutes(b.start_time)

\* a constraint on equal start times only
SlotTakenSameStart(row) ==
    \E r \in premium_slots :
        /\ r.payment_status = "PAID"
        /\ row.payment_status = "PAID"
        /\ r.tenant_id = row.tenant_id
        /\ r.table_id = row.table_id
        /\ r.date = row.date
        /\ timeToMinutes(r.start_time) = timeToMinutes(row.start_time)

\* the store's exclusion constraint on premium_slots: no second PAID row of
\* a tenant's table on a date for an overlapping interval
SlotTaken(row) ==
    \E r \in premium_slots :
        /\ r.payment_status = "PAID"
        /\ row.payment_status = "PAID"
        /\ r.tenant_id = row.tenant_id
        /\ r.table_id = row.table_id
        /\ r.date = row.date
        /\ SlotsOverlap(row, r)

\* webhook.js:211-226
slotRow(d) ==
    LET metadata == EventMetadata(wh[d].ev)
        tableIds == split(metadata.table_ids)
    IN  [id |-> nextSlotId, tenant_id |-> metadata.tenant_id,
         table_id |-> Number(tableIds[wh[d].i]),
         date |-> metadata.booking_date,
         start_time |-> metadata.booking_time,
         end_time |-> endTimeStr(metadata.booking_time),
         stripe_order_id |-> wh[d].ev,
         booking_ref |-> metadata.booking_ref,
         payment_status |-> "PAID", is_manual_booking |-> FALSE]

\* the loop left at the first failed insert
WebhookInsertSlotAbortOnError(d, error) ==
    LET tableIds == split(EventMetadata(wh[d].ev).table_ids)
        last == wh[d].i = Len(tableIds)
    IN  /\ wh[d].pc = "insert"
        /\ IF error \/ SlotTaken(slotRow(d))
           THEN /\ wh' = [wh EXCEPT ![d] = [@ EXCEPT
                            !.allOK = FALSE, !.failed = @ + 1, !.i = @ + 1,
                            !.pc = "notify"]]
                /\ UNCHANGED << premium_slots, nextSlotId >>
           ELSE /\ premium_slots' = premium_slots \cup {slotRow(d)}
                /\ nextSlotId' = nextSlotId + 1
                /\ wh' = [wh EXCEPT ![d] = [@ EXCEPT
                            !.inserted = @ + 1, !.i = @ + 1,
                            !.pc = IF last THEN "notify" ELSE "insert"]]
        /\ UNCHANGED << now, reserved_holds, webhook_events,
                        marketing_optins, sessions, paid, emails, co, admin,
                        adminOps, ov >>

\* webhook.js:207-236  one turn of the insert loop
\* an insert loop that removes the event's rows when an insert fails
WebhookInsertSlotRollingBack(d, error) ==
    LET tableIds == split(EventMetadata(wh[d].ev).table_ids)
        last == wh[d].i = Len(tableIds)
    IN  /\ wh[d].pc = "insert"
        /\ IF error \/ SlotTaken(slotRow(d))
           THEN /\ wh' = [wh EXCEPT ![d] = [@ EXCEPT
                            !.allOK = FALSE, !.failed = @ + 1, !.i = @ + 1,
                            !.pc = IF last THEN "notify" ELSE "insert"]]
                /\ premium_slots' =
                      { r \in premium_slots : r.stripe_order_id # wh[d].ev }
                /\ UNCHANGED nextSlotId
           ELSE /\ premium_slots' = premium_slots \cup {slotRow(d)}
                /\ nextSlotId' = nextSlotId + 1
                /\ wh' = [wh EXCEPT ![d] = [@ EXCEPT
                            !.inserted = @ + 1, !.i = @ + 1,
                            !.pc = IF last THEN "notify" ELSE "insert"]]
        /\ UNCHANGED << now, reserved_holds, webhook_events,
                        marketing_optins, sessions, paid, emails, co, admin,
                        adminOps, ov >>

WebhookInsertSlot(d, error) ==
    LET tableIds == split(EventMetadata(wh[d].ev).table_ids)
        last == wh[d].i = Len(tableIds)
    IN  /\ wh[d].pc = "insert"
        /\ IF error \/ SlotTaken(slotRow(d))
           THEN /\ wh' = [wh EXCEPT ![d] = [@ EXCEPT
                            !.allOK = FALSE, !.failed = @ + 1, !.i = @ + 1,
                            !.pc = IF last THEN "notify" ELSE "insert"]]
                /\ UNCHANGED << premium_slots, nextSlotId >>
           ELSE /\ premium_slots' = premium_slots \cup {slotRow(d)}
                /\ nextSlotId' = nextSlotId + 1
                /\ wh' = [wh EXCEPT ![d] = [@ EXCEPT
                            !.inserted = @ + 1, !.i = @ + 1,
                            !.pc = IF last THEN "notify" ELSE "insert"]]
        /\ UNCHANGED << now, reserved_holds, webhook_events,
                        marketing_optins, sessions, paid, emails, co, admin,
                        adminOps, ov >>

\* webhook.js:64-95: the call of resend.emails.send; its failure is caught
\* and the result is dropped by the callers
sendBookingNotification(type, e, d) ==
    [kind |-> "staff", type |-> type, ev |-> e, by |-> d]

\* webhook.js:32-62
sendCustomerConfirmation(e, d) ==
    [kind |-> "customer", type |-> "CONFIRMED", ev |-> e, by |-> d]

\* the handler taking the success branch whatever allBookingsSuccessful is
WebhookNotifyStaffAlwaysPaid(d) ==
    /\ wh[d].pc = "notify"
    /\ emails' = emails \cup
           {sendBookingNotification("CUSTOMER PAID", wh[d].ev, d)}
    /\ wh' = [wh EXCEPT ![d] = [@ EXCEPT !.pc = "confirm"]]
    /\ UNCHANGED << now, storeVars, sessions, paid, co, admin, adminOps,
                    ov >>

\* webhook.js:242-243 and 278-292  the staff email of either branch
WebhookNotifyStaff(d) ==
    /\ wh[d].pc = "notify"
    /\ IF wh[d].allOK
       THEN /\ emails' = emails \cup
                   {sendBookingNotification("CUSTOMER PAID", wh[d].ev, d)}
            /\ wh' = [wh EXCEPT ![d] = [@ EXCEPT !.pc = "confirm"]]
       ELSE /\ emails' = emails \cup
                   {sendBookingNotification("BOOKING CONFLICT FAIL",
                                            wh[d].ev, d)}
            /\ wh' = [wh EXCEPT ![d] = [@ EXCEPT !.pc = "done",
                                           !.status = 200,
                                           !.body = "received"]]
    /\ UNCHANGED << now, storeVars, sessions, paid, co, admin, adminOps,
                    ov >>

\* webhook.js:244-248
WebhookConfirm(d) ==
    LET metadata == EventMetadata(wh[d].ev)
    IN  /\ wh[d].pc = "confirm"
        /\ emails' = emails \cup {sendCustomerConfirmation(wh[d].ev, d)}
        /\ wh' = [wh EXCEPT ![d] = [@ EXCEPT !.pc =
                    IF metadata.receive_offers = "TRUE"
                       /\ metadata.email # NoVal
                    THEN "optin" ELSE "complete"]]
        /\ UNCHANGED << now, storeVars, sessions, paid, co, admin,
                        adminOps, ov >>

\* webhook.js:249-266  upsert on (email, tenant_id); an error is logged
WebhookOptin(d, optinError) ==
    LET metadata == EventMetadata(wh[d].ev)
    IN  /\ wh[d].pc = "optin"
        /\ marketing_optins' =
              IF optinError THEN marketing_optins
              ELSE marketing_optins \cup
                     {[email |-> metadata.email,
                       tenant_id |-> metadata.tenant_id]}
        /\ wh' = [wh EXCEPT ![d] = [@ EXCEPT !.pc = "complete"]]
        /\ UNCHANGED << now, reserved_holds, premium_slots, nextSlotId,
                        webhook_events, sessions, paid, emails, co, admin,
                        adminOps, ov >>

\* a webhook that removes the event's ledger row once it is fulfilled
WebhookCompleteDeletingRow(d, updateError) ==
    /\ wh[d].pc = "complete"
    /\ webhook_events' =
          IF updateError THEN webhook_events
          ELSE { w \in webhook_events : w.stripe_event_id # wh[d].ev }
    /\ wh' = [wh EXCEPT ![d] = [@ EXCEPT !.pc = "done", !.status = 200,
                                   !.body = "received"]]
    /\ UNCHANGED << now, reserved_holds, premium_slots, nextSlotId,
                    marketing_optins, sessions, paid, emails, co, admin,
                    adminOps, ov >>

\* a webhook that deletes the event's holds once the booking is fulfilled
WebhookCompleteReleasingHolds(d, updateError) ==
    /\ wh[d].pc = "complete"
    /\ webhook_events' =
          IF updateError THEN webhook_events
          ELSE { IF w.stripe_event_id = wh[d].ev
                 THEN [w EXCEPT !.status = "completed"] ELSE w :
                 w \in webhook_events }
    /\ reserved_holds' = { h \in reserved_holds : h.by # wh[d].ev }
    /\ wh' = [wh EXCEPT ![d] = [@ EXCEPT !.pc = "done", !.status = 200,
                                   !.body = "received"]]
    /\ UNCHANGED << now, premium_slots, nextSlotId,
                    marketing_optins, sessions, paid, emails, co, admin,
                    adminOps, ov >>

\* webhook.js:268-276 and 292  the update to completed, then the response
WebhookComplete(d, updateError) ==
    /\ wh[d].pc = "complete"
    /\ webhook_events' =
          IF updateError THEN webhook_events
          ELSE { IF w.stripe_event_id = wh[d].ev
                 THEN [w EXCEPT !.status = "completed"] ELSE w :
                 w \in webhook_events }
    /\ wh' = [wh EXCEPT ![d] = [@ EXCEPT !.pc = "done", !.status = 200,
                                   !.body = "received"]]
    /\ UNCHANGED << now, reserved_holds, premium_slots, nextSlotId,
                    marketing_optins, sessions, paid, emails, co, admin,
                    adminOps, ov >>

Webhook ==
    \E d \in Deliveries :
        \/ \E e \in EventIds, ok \in BOOLEAN : WebhookReceive(d, e, ok)
        \/ \E e \in BOOLEAN : WebhookIdempotency(d, e)
        \/ \E e \in BOOLEAN : WebhookLogEvent(d, e)
        \/ \E e \in BOOLEAN : WebhookInsertSlot(d, e)
        \/ WebhookNotifyStaff(d)
        \/ WebhookConfirm(d)
        \/ \E e \in BOOLEAN : WebhookOptin(d, e)
        \/ \E e \in BOOLEAN : WebhookComplete(d, e)

(* --------------------- api/admin-create-booking.js --------------------- *)

AdminCreateRequest(table, day, start, end, tenant) ==
    [tableId |-> table, date |-> day, startTime |-> start, endTime |-> end,
     tenantId |-> tenant]

\* the request bodies the admin page sends to /api/admin-create-booking
AdminCreateRequests ==
    { AdminCreateRequest(5, Day1, <<19, 0>>, <<21, 0>>, "t1"),
      AdminCreateRequest(5, Day1, <<20, 0>>, <<22, 0>>, "t1"),
      AdminCreateRequest(5, Day1, <<19, 0>>, <<21, 0>>, "t2"),
      AdminCreateRequest(5, Day1, <<19, 0>>, <<21, 0>>, NoVal) }

\* admin-create-booking.js:60-70
newBooking(req) ==
    [id |-> nextSlotId, tenant_id |-> req.tenantId, table_id |-> req.tableId,
     date |-> req.date, start_time |-> req.startTime,
     end_time |-> req.endTime, stripe_order_id |-> 0,
     booking_ref |-> NoVal, payment_status |-> "PAID",
     is_manual_booking |-> TRUE]

\* a handler that notifies the staff before it looks at the insert's result
AdminCreateNotifyFirst(req, insertError) ==
    /\ adminOps < MaxAdminBookings
    /\ IF req.tenantId = NoVal
       THEN /\ admin' = [NoAdmin EXCEPT !.op = "create", !.status = 400,
                                        !.message = "missing_data"]
            /\ UNCHANGED << premium_slots, nextSlotId, emails, adminOps >>
       ELSE IF SlotTaken(newBooking(req))
       THEN /\ admin' = [NoAdmin EXCEPT !.op = "create",
                                        !.tenant = req.tenantId,
                                        !.status = 409,
                                        !.message = "already_booked"]
            /\ emails' = emails \cup
                   {[kind |-> "staff", type |-> "ADMIN MANUAL",
                     ev |-> 0, by |-> nextSlotId]}
            /\ UNCHANGED << premium_slots, nextSlotId, adminOps >>
       ELSE IF insertError
       THEN /\ admin' = [NoAdmin EXCEPT !.op = "create",
                                        !.tenant = req.tenantId,
                                        !.status = 500,
                                        !.message = "insert_failed"]
            /\ UNCHANGED << premium_slots, nextSlotId, emails, adminOps >>
       ELSE /\ premium_slots' = premium_slots \cup {newBooking(req)}
            /\ nextSlotId' = nextSlotId + 1
            /\ adminOps' = adminOps + 1
            /\ emails' = emails \cup
                   {[kind |-> "staff", type |-> "ADMIN MANUAL",
                     ev |-> 0, by |-> nextSlotId]}
            /\ admin' = [NoAdmin EXCEPT !.op = "create", !.id = nextSlotId,
                                        !.tenant = req.tenantId,
                                        !.status = 200,
                                        !.message = "created"]
    /\ UNCHANGED << now, reserved_holds, webhook_events, marketing_optins,
                    sessions, paid, co, wh, ov >>

\* admin-create-booking.js:53-104
AdminCreate(req, insertError) ==
    /\ adminOps < MaxAdminBookings
    /\ IF req.tenantId = NoVal
       THEN /\ admin' = [NoAdmin EXCEPT !.op = "create", !.status = 400,
                                        !.message = "missing_data"]
            /\ UNCHANGED << premium_slots, nextSlotId, emails, adminOps >>
       ELSE IF SlotTaken(newBooking(req))
       THEN /\ admin' = [NoAdmin EXCEPT !.op = "create",
                                        !.tenant = req.tenantId,
                                        !.status = 409,
                                        !.message = "already_booked"]
            /\ UNCHANGED << premium_slots, nextSlotId, emails, adminOps >>
       ELSE IF insertError
       THEN /\ admin' = [NoAdmin EXCEPT !.op = "create",
                                        !.tenant = req.tenantId,
                                        !.status = 500,
                                        !.message = "insert_failed"]
            /\ UNCHANGED << premium_slots, nextSlotId, emails, adminOps >>
       ELSE /\ premium_slots' = premium_slots \cup {newBooking(req)}
            /\ nextSlotId' = nextSlotId + 1
            /\ adminOps' = adminOps + 1
            /\ emails' = emails \cup
                   {[kind |-> "staff", type |-> "ADMIN MANUAL",
                     ev |-> 0, by |-> nextSlotId]}
            /\ admin' = [NoAdmin EXCEPT !.op = "create", !.id = nextSlotId,
                                        !.tenant = req.tenantId,
                                        !.status = 200,
                                        !.message = "created"]
    /\ UNCHANGED << now, reserved_holds, webhook_events, marketing_optins,
                    sessions, paid, co, wh, ov >>

(* --------------------- api/admin-delete-booking.js --------------------- *)

\* a delete that filters on the id alone
deleteMatchesAnyTenant(bookingId, tenantId) ==
    { r \in premium_slots : r.id = bookingId }

\* the rows the delete of admin-delete-booking.js:32-36 matches
deleteMatches(bookingId, tenantId) ==
    { r \in premium_slots : r.id = bookingId /\ r.tenant_id = tenantId }

\* admin-delete-booking.js:23-49
AdminDelete(bookingId, tenantId, error) ==
    /\ IF error
       THEN /\ admin' = [NoAdmin EXCEPT !.op = "delete", !.id = bookingId,
                                        !.tenant = tenantId, !.status = 500,
                                        !.message = "delete_failed"]
            /\ UNCHANGED premium_slots
       ELSE /\ premium_slots' =
                   premium_slots \ deleteMatches(bookingId, tenantId)
            /\ admin' = [NoAdmin EXCEPT !.op = "delete", !.id = bookingId,
                            !.tenant = tenantId, !.status = 200,
                            !.message = "Booking successfully removed.",
                            !.removed = Cardinality(
                                deleteMatches(bookingId, tenantId))]
    /\ UNCHANGED << now, reserved_holds, nextSlotId, webhook_events,
                    marketing_optins, sessions, paid, emails, co, wh,
                    adminOps, ov >>

Tenants == {"t1", "t2"}

Admin ==
    \/ \E req \in AdminCreateRequests, e \in BOOLEAN : AdminCreate(req, e)
    \/ \E id \in 1..(nextSlotId - 1), t \in Tenants, e \in BOOLEAN :
          AdminDelete(id, t, e)

(* ---------------------------- specifications --------------------------- *)

Next ==
    \/ Tick
    \/ Checkout
    \/ \E c \in Checkouts : Pay(c)
    \/ Webhook
    \/ Admin

\* the whole system
Spec == Init /\ [][Next]_vars

\* checkout creation against the clock and the admin's manual bookings
FlowAdminCreate ==
    /\ adminOps < MaxFlowAdminBookings
    /\ \E req \in AdminCreateRequests, e \in BOOLEAN : AdminCreate(req, e)

NextCheckout ==
    \/ Tick
    \/ Checkout
    \/ FlowAdminCreate

SpecCheckout == Init /\ [][NextCheckout]_vars

\* checkout creation on valid and invalid bodies
SpecValidation == Init /\ [][CheckoutWith(ValidationRequests)]_vars

\* the same table, date and time asked for by two tenants
Req7 == CheckoutRequest(<<5>>, Day1, <<19, 0>>, "t2", "r7", "c@d.com", 1000)

TenantRequests == {Req1, Req7}

\* checkout creation by two tenants against the clock
SpecTenants == Init /\ [][Tick \/ CheckoutWith(TenantRequests)]_vars

\* a checkout that ended with a session url
DoneCheckout(req, t0) ==
    [IdleCheckout EXCEPT !.pc = "done", !.req = req, !.t0 = t0,
        !.after = IF t0 = 0 THEN {} ELSE {1},
        !.endTime = calculateBookingEndTime(req.booking_date,
                                            req.booking_time),
        !.status = 200, !.body = "url", !.placed = TRUE]

\* the requests of the two sessions: overlapping, overlapping on one of two
\* tables, adjacent, of two tenants, on two days, one without a tenant id
SessionPairs ==
    { <<Req1, Req2>>, <<Req3, Req2>>, <<Req1, Req3>>, <<Req4, Req1>>,
      <<Req1, Req5>>, <<Req6, Req5>> }

\* the states in which two checkouts have ended with a session each, the
\* second one entered after the hold of the first had expired
InitPaidOf(pairs) ==
    \E pair \in pairs :
        LET r1 == pair[1]
            r2 == pair[2]
            e1 == calculateBookingEndTime(r1.booking_date, r1.booking_time)
            e2 == calculateBookingEndTime(r2.booking_date, r2.booking_time)
        IN  /\ now = HoldDuration + 1
            /\ co = [c \in Checkouts |->
                        IF c = 1 THEN DoneCheckout(r1, 0)
                        ELSE DoneCheckout(r2, HoldDuration + 1)]
            /\ reserved_holds = holdRecords(1, r1, 0, e1) \cup
                                holdRecords(2, r2, HoldDuration + 1, e2)
            /\ sessions = {[id |-> 1, metadata |-> sessionMetadata(r1, e1)],
                           [id |-> 2, metadata |-> sessionMetadata(r2, e2)]}
            /\ premium_slots = {}
            /\ nextSlotId = 1
            /\ webhook_events = {}
            /\ marketing_optins = {}
            /\ paid = {}
            /\ emails = {}
            /\ wh = [d \in Deliveries |-> IdleDelivery]
            /\ admin = NoAdmin
            /\ adminOps = 0
            /\ ov = NoOverlapTest

\* payment, webhook deliveries and the admin, once the sessions exist
InitPaid == InitPaidOf(SessionPairs)

NextWebhook ==
    \/ \E c \in Checkouts : Pay(c)
    \/ Webhook
    \/ FlowAdminCreate

SpecWebhook == InitPaid /\ [][NextWebhook]_vars

\* the admin page alone
SpecAdmin == Init /\ [][Admin]_vars

\* the webhook's inserts against the admin's deletes
BookingPairs == { <<Req3, Req2>> }

AdminDeleteAny ==
    \E id \in 1..(nextSlotId - 1), t \in Tenants, e \in BOOLEAN :
        AdminDelete(id, t, e)

SpecBookings ==
    InitPaidOf(BookingPairs) /\
       [][(\E c \in Checkouts : Pay(c)) \/ Webhook \/ AdminDeleteAny]_vars

\* one request body through its whole life: checkout, payment, webhook
\* deliveries, admin delete
LifeRequests == {Req2}

SpecLife ==
    Init /\ [][\/ CheckoutWith(LifeRequests)
               \/ \E c \in Checkouts : Pay(c)
               \/ Webhook
               \/ AdminDeleteAny]_vars

(* ------------------------ the overlap test alone ----------------------- *)

Hours == {0, 10, 11, 12, 13, 14, 23}
Minutes == {0, 30}
\* "HH:MM" as the checkout writes it and "HH:MM:00" as a time column reads
ShortTimes == { <<h, m>> : h \in Hours, m \in Minutes }
LongTimes == { <<h, m, 0>> : h \in Hours, m \in Minutes }

InitOverlap ==
    /\ now = 0
    /\ reserved_holds = {}
    /\ premium_slots = {}
    /\ nextSlotId = 1
    /\ webhook_events = {}
    /\ marketing_optins = {}
    /\ sessions = {}
    /\ paid = {}
    /\ emails = {}
    /\ co = [c \in Checkouts |-> IdleCheckout]
    /\ wh = [d \in Deliveries |-> IdleDelivery]
    /\ admin = NoAdmin
    /\ adminOps = 0
    /\ \E ns \in ShortTimes, ne \in ShortTimes, long \in BOOLEAN :
          \E hs \in (IF long THEN LongTimes ELSE ShortTimes),
             he \in (IF long THEN LongTimes ELSE ShortTimes) :
             ov = [ns |-> ns, ne |-> ne, hs |-> hs, he |-> he,
                   result |-> "none"]

\* create-checkout.js:188-189 and 205-214 on one requested interval and
\* one fetched hold
OverlapTest ==
    /\ ov.result = "none"
    /\ ov' = [ov EXCEPT !.result =
                IF overlaps(timeToMinutes(ov.ns), timeToMinutes(ov.ne),
                            [start_time |-> ov.hs, end_time |-> ov.he])
                THEN "conflict" ELSE "clear"]
    /\ UNCHANGED << now, storeVars, sessions, paid, emails, co, wh, admin,
                    adminOps >>

SpecOverlap == InitOverlap /\ [][OverlapTest]_vars

(* ------------------------------- claims -------------------------------- *)

TablesOf(req) == { req.table_ids[k] : k \in 1..Len(req.table_ids) }

\* the tables an event's metadata names, as the webhook reads them
EventTables(e) ==
    LET tableIds == split(EventMetadata(e).table_ids)
    IN  { Number(tableIds[k]) : k \in 1..Len(tableIds) }

\* a verified checkout.session.completed event
IsCompleted(e) == e # 0 /\ EventType(e) = "checkout.session.completed"

EmailsBy(d) ==
    { m \in emails : m.by = d /\ m.ev = wh[d].ev /\ m.ev # 0 }

CustomerConfirmations(e) ==
    { m \in emails : m.kind = "customer" /\ m.ev = e }

BookingRowsOf(e) == { r \in premium_slots : r.stripe_order_id = e }

\* delivery d has attempted a Booking insert or sent a notification
SideEffects(d) ==
    \/ wh[d].inserted + wh[d].failed > 0
    \/ EmailsBy(d) # {}

WindowsCollide(c1, c2) ==
    /\ co[c1].req.booking_date = co[c2].req.booking_date
    /\ TablesOf(co[c1].req) \cap TablesOf(co[c2].req) # {}
    /\ timeToMinutes(co[c1].req.booking_time) < timeToMinutes(co[c2].endTime)
    /\ timeToMinutes(co[c1].endTime) > timeToMinutes(co[c2].req.booking_time)

\* C2: of two checkout creations for the same table and date with
\* overlapping windows that run concurrently (neither had placed its Hold
\* when the other was entered), at most one places a Hold.
C2_AtMostOneConcurrentHold ==
    \A c1, c2 \in Checkouts :
        ( /\ c1 # c2
          /\ c1 \notin co[c2].after /\ c2 \notin co[c1].after
          /\ co[c1].req # NoRequest /\ co[c2].req # NoRequest
          /\ ~ CheckoutInvalid(co[c1].req) /\ ~ CheckoutInvalid(co[c2].req)
          /\ WindowsCollide(c1, c2) )
        => ~ (co[c1].placed /\ co[c2].placed)

\* delivery d2 of a verified completed event was received after delivery
\* d1 of the same event had responded, and has responded itself
Redelivered(d1, d2) ==
    /\ d1 \in wh[d2].after
    /\ wh[d1].ev = wh[d2].ev
    /\ IsCompleted(wh[d2].ev)
    /\ wh[d2].pc = "done"

\* C3 as stated: the same verified completed event delivered twice, the
\* second after the first responded, gives exactly one set of Booking rows
\* and exactly one customer confirmation, no insert and no notification
\* by the second delivery, and 200 for both.
C3_TwiceDeliveredAsStated ==
    \A d1, d2 \in Deliveries :
        Redelivered(d1, d2) =>
            /\ wh[d1].status = 200
            /\ wh[d2].status = 200
            /\ wh[d2].inserted = 0 /\ wh[d2].failed = 0
            /\ EmailsBy(d2) = {}
            /\ Cardinality(CustomerConfirmations(wh[d2].ev)) = 1
            /\ Cardinality(BookingRowsOf(wh[d2].ev)) =
                   Cardinality(EventTables(wh[d2].ev))

\* C3 amended: when the first delivery was answered 200, the second does no
\* Booking insert and sends no notification, and is answered 200, or 500
\* when its ledger lookup fails; over both deliveries every table of the
\* event is inserted at most once and at most one customer confirmation is
\* sent, exactly one when a delivery inserted every table of the event.
C3_TwiceDelivered ==
    \A d1, d2 \in Deliveries :
        Redelivered(d1, d2) =>
            /\ wh[d1].status = 200 =>
                  /\ wh[d2].inserted = 0 /\ wh[d2].failed = 0
                  /\ EmailsBy(d2) = {}
                  /\ \/ wh[d2].status = 200 /\ wh[d2].body = "received"
                     \/ /\ wh[d2].status = 500
                        /\ wh[d2].body = "Could not check event"
            /\ Cardinality(CustomerConfirmations(wh[d2].ev)) <= 1
            /\ \A d \in {d1, d2} :
                  ( /\ wh[d].status = 200
                    /\ wh[d].inserted = Cardinality(EventTables(wh[d].ev)) )
                  => Cardinality(CustomerConfirmations(wh[d].ev)) = 1
            /\ \A r1, r2 \in BookingRowsOf(wh[d2].ev) :
                  r1.id # r2.id => r1.table_id # r2.table_id

\* both deliveries of one event answered 200, one confirmation sent
C3_Witness ==
    \E d1, d2 \in Deliveries :
        /\ Redelivered(d1, d2)
        /\ wh[d1].status = 200 /\ wh[d2].status = 200
        /\ wh[d1].inserted = 2
        /\ Cardinality(CustomerConfirmations(wh[d2].ev)) = 1

\* C4: for any event id, whatever the interleaving of the steps of its
\* deliveries, at most one delivery attempts Booking inserts or sends the
\* staff or customer notification.
C4_AtMostOneFulfilment ==
    \A d1, d2 \in Deliveries :
        ( d1 # d2 /\ wh[d1].ev = wh[d2].ev /\ wh[d1].ev # 0 )
        => ~ (SideEffects(d1) /\ SideEffects(d2))

\* two deliveries of one event ran concurrently and passed the lookup; one
\* lost the ledger insert, the other fulfilled
C4_Witness ==
    \E d1, d2 \in Deliveries :
        /\ d1 # d2 /\ wh[d1].ev = wh[d2].ev /\ wh[d1].ev # 0
        /\ d1 \notin wh[d2].after /\ d2 \notin wh[d1].after
        /\ wh[d1].body = "Could not log event"
        /\ wh[d2].pc = "done" /\ wh[d2].inserted > 0
        /\ EmailsBy(d2) # {}

\* C5: a customer confirmation is sent for an event only if every
\* per-table insert of it succeeded; if an insert failed, no customer
\* confirmation is sent for the event and the delivery has dispatched a
\* staff alert of type BOOKING CONFLICT FAIL by the time it responds.
C5_ConfirmationOnlyOnSuccess ==
    \A d \in Deliveries :
        /\ (\E m \in EmailsBy(d) : m.kind = "customer") =>
              /\ wh[d].failed = 0
              /\ wh[d].inserted = Len(split(EventMetadata(wh[d].ev).table_ids))
        /\ wh[d].failed > 0 =>
              /\ CustomerConfirmations(wh[d].ev) = {}
              /\ wh[d].pc = "done" =>
                    sendBookingNotification("BOOKING CONFLICT FAIL",
                                            wh[d].ev, d) \in emails

\* a delivery inserted one table of two, the other insert failed, and the
\* staff alert went out
C5_Witness ==
    \E d \in Deliveries :
        /\ wh[d].pc = "done"
        /\ wh[d].failed > 0 /\ wh[d].inserted > 0
        /\ sendBookingNotification("BOOKING CONFLICT FAIL", wh[d].ev, d)
              \in emails

\* a PAID booking of the requesting tenant on a requested table and date
\* overlaps the requested interval
PaidBookingOverlaps(c) ==
    \E b \in premium_slots :
        /\ b.payment_status = "PAID"
        /\ b.tenant_id = co[c].req.tenant_id
        /\ b.table_id \in TablesOf(co[c].req)
        /\ b.date = co[c].req.booking_date
        /\ timeToMinutes(co[c].req.booking_time) < timeToMinutes(b.end_time)
        /\ timeToMinutes(co[c].endTime) > timeToMinutes(b.start_time)

\* C6: the conflict check at checkout creation reports a conflict whenever
\* a PAID Booking for a requested table on the requested date overlaps the
\* requested interval: no check that runs while such a Booking exists lets
\* the request go on to place its Hold.
C6_PaidBookingIsConflict ==
    [][ \A c \in Checkouts :
          (co[c].pc = "hold_check" /\ PaidBookingOverlaps(c))
          => co'[c].pc # "hold_insert" ]_vars

\* the request of a checkout ends after midnight
CrossesMidnight(req) ==
    timeToMinutes(req.booking_time) + BookingMinutes > 24 * 60

\* the two-hour intervals of two requests on one date intersect
IntervalsIntersect(r1, r2) ==
    /\ timeToMinutes(r1.booking_time)
          < timeToMinutes(r2.booking_time) + BookingMinutes
    /\ timeToMinutes(r2.booking_time)
          < timeToMinutes(r1.booking_time) + BookingMinutes

\* checkout c2 was entered after c1 had placed a Hold that does not cross
\* midnight, while that Hold was unexpired, for one of its tables on its
\* date and an intersecting interval
EnteredUnderHold(c1, c2) ==
    /\ c1 \in co[c2].after
    /\ co[c2].t0 < co[c1].t0 + HoldDuration
    /\ ~ CrossesMidnight(co[c1].req)
    /\ co[c1].req.booking_date = co[c2].req.booking_date
    /\ TablesOf(co[c1].req) \cap TablesOf(co[c2].req) # {}
    /\ IntervalsIntersect(co[c1].req, co[c2].req)

\* C7: every checkout creation entered under such a Hold is answered 409
\* with status hold_conflict, inserts no Hold row and creates no session.
C7_LaterCheckoutRefused ==
    \A c1, c2 \in Checkouts :
        EnteredUnderHold(c1, c2) =>
            /\ co[c2].pc \in {"hold_check", "done"}
            /\ ~ co[c2].placed
            /\ \A x \in sessions : x.id # c2
            /\ co[c2].pc = "done" =>
                  co[c2].status = 409 /\ co[c2].body = "hold_conflict"

\* C8: an expired Hold never makes createReservationHold report a
\* conflict: a checkout that is refused either met a Hold for one of its
\* tables on its date with an overlapping interval and expires_at not
\* earlier than the time of the check, or the store reported an error;
\* and with neither, it has not been refused.
C8_ExpiredHoldNeverBlocks ==
    \A c \in Checkouts :
        (co[c].pc = "done" /\ co[c].status = 409) =>
            \/ co[c].log \in {"Hold Check Error", "Hold Insert Error"}
            \/ \E h \in reserved_holds :
                  /\ h.table_id = co[c].conflictingTableId
                  /\ h.table_id \in TablesOf(co[c].req)
                  /\ h.date = co[c].req.booking_date
                  /\ h.expires_at >= co[c].t0
                  /\ overlaps(timeToMinutes(co[c].req.booking_time),
                              timeToMinutes(co[c].endTime), h)

\* a checkout has placed its Hold over an expired Hold of another checkout
\* for the same table, date and an overlapping interval
C8_Witness ==
    \E c \in Checkouts : \E h \in reserved_holds :
        /\ co[c].placed /\ co[c].status = 200
        /\ h.by # c
        /\ h.expires_at < co[c].t0
        /\ h.table_id \in TablesOf(co[c].req)
        /\ h.date = co[c].req.booking_date
        /\ overlaps(timeToMinutes(co[c].req.booking_time),
                    timeToMinutes(co[c].endTime), h)

\* the order of two times of day, hour first and minute second
Earlier(t1, t2) == t1[1] < t2[1] \/ (t1[1] = t2[1] /\ t1[2] < t2[2])

\* C9: the overlap test between a requested interval and a fetched Hold is
\* true exactly when requested.start < hold.end and requested.end >
\* hold.start as times of day; [10:00,12:00) against [12:00,14:00) is no
\* conflict and against [11:00,13:00) is one.
C9_OverlapTest ==
    ov.result # "none" =>
        /\ ov.result = "conflict" <=>
              (Earlier(ov.ns, ov.he) /\ Earlier(ov.hs, ov.ne))
        /\ ( /\ ov.ns = <<10, 0>> /\ ov.ne = <<12, 0>>
             /\ ov.hs[1] = 12 /\ ov.hs[2] = 0
             /\ ov.he[1] = 14 /\ ov.he[2] = 0 ) => ov.result = "clear"
        /\ ( /\ ov.ns = <<10, 0>> /\ ov.ne = <<12, 0>>
             /\ ov.hs[1] = 11 /\ ov.hs[2] = 0
             /\ ov.he[1] = 13 /\ ov.he[2] = 0 ) => ov.result = "conflict"

\* the test has answered for the adjacent intervals
C9_Witness ==
    /\ ov.ns = <<10, 0>> /\ ov.ne = <<12, 0>>
    /\ ov.hs = <<12, 0>> /\ ov.he = <<14, 0>>
    /\ ov.result = "clear"

\* C10: an admin delete of booking id X with a tenant id that does not own
\* X changes no row of any table, and its response does not report a
\* successful removal.
C10_ForeignDeleteReportsNoOp ==
    [][ ( /\ admin' # admin
          /\ admin'.op = "delete"
          /\ \E r \in premium_slots :
                r.id = admin'.id /\ r.tenant_id # admin'.tenant )
        => ( /\ UNCHANGED storeVars
             /\ admin'.message # "Booking successfully removed." ) ]_vars

\* C11: a webhook request whose signature does not verify is answered 400
\* at once: the step that receives it reads and writes no table and sends
\* no email, and the delivery never gets to a lookup, a ledger row, a
\* Booking insert or a notification.
C11_BadSignatureRejected ==
    [][ \A d \in Deliveries :
          wh'[d].sig = "bad" =>
             /\ wh'[d].pc = "done" /\ wh'[d].status = 400
             /\ wh'[d].ev = 0
             /\ wh'[d].inserted = 0 /\ wh'[d].failed = 0
             /\ \A m \in emails' : m.by = d => m.type = "ADMIN MANUAL"
             /\ wh[d].sig # "bad" => UNCHANGED << storeVars, emails >> ]_vars

\* a request with a bad signature has been answered while the other
\* delivery has fulfilled an event
C11_Witness ==
    \E d1, d2 \in Deliveries :
        /\ wh[d1].sig = "bad" /\ wh[d1].status = 400
        /\ wh[d2].sig = "ok" /\ wh[d2].inserted > 0

\* the ledger rows of an event with a given status
LedgerRows(e, status) ==
    { w \in webhook_events : w.stripe_event_id = e /\ w.status = status }

\* C12: a ledger row has status completed only if every per-table Booking
\* insert of its event succeeded, and a delivery is at a Booking insert
\* only while the ledger row of its event exists with status processing.
C12_LedgerStatusOrder ==
    /\ \A w \in webhook_events :
          w.status = "completed" =>
             /\ \A d \in Deliveries :
                   wh[d].ev = w.stripe_event_id => wh[d].failed = 0
             /\ Cardinality(BookingRowsOf(w.stripe_event_id)) =
                   Len(split(EventMetadata(w.stripe_event_id).table_ids))
    /\ \A d \in Deliveries :
          /\ wh[d].pc = "insert" => LedgerRows(wh[d].ev, "processing") # {}
          /\ wh[d].inserted + wh[d].failed > 0 => existingEvent(wh[d].ev) # {}

\* one event is completed with its rows, another is left processing after
\* a rejected insert
C12_Witness ==
    /\ \E w \in webhook_events :
          w.status = "completed" /\ BookingRowsOf(w.stripe_event_id) # {}
    /\ \E d \in Deliveries :
          /\ wh[d].pc = "done" /\ wh[d].failed > 0
          /\ LedgerRows(wh[d].ev, "processing") # {}

\* C13: when the select of active Holds fails or the Hold insert fails
\* (the handler has logged the error), the checkout is answered 409 with
\* status hold_conflict, has placed no Hold and has no payment session.
C13_FailClosed ==
    \A c \in Checkouts :
        co[c].log \in {"Hold Check Error", "Hold Insert Error"} =>
            /\ co[c].pc = "done"
            /\ co[c].status = 409 /\ co[c].body = "hold_conflict"
            /\ ~ co[c].placed
            /\ \A h \in reserved_holds : h.by # c
            /\ \A x \in sessions : x.id # c

\* one checkout was refused for a failed select and the other for a failed
\* insert
C13_Witness ==
    \E c1, c2 \in Checkouts :
        /\ co[c1].log = "Hold Check Error" /\ co[c1].status = 409
        /\ co[c2].log = "Hold Insert Error" /\ co[c2].status = 409

\* a body the validation of the specification rejects
MissingData(req) ==
    \/ req.table_ids = NoList \/ req.table_ids = <<>>
    \/ req.total_pence = NoAmount \/ req.total_pence <= 0
    \/ req.email = NoVal
    \/ req.tenant_id = NoVal
    \/ req.booking_ref = NoVal

\* C14: a checkout request with absent or empty table ids, a missing or
\* non-positive amount, a missing email, a missing tenant id or a missing
\* booking reference is answered 400, inserts no Hold row and creates no
\* payment session.
C14_MissingDataRejected ==
    \A c \in Checkouts :
        (co[c].req # NoRequest /\ MissingData(co[c].req)) =>
            /\ co[c].pc = "done" /\ co[c].status = 400
            /\ ~ co[c].placed
            /\ \A h \in reserved_holds : h.by # c
            /\ \A x \in sessions : x.id # c

\* the metadata of an event lacks the tenant id, the booking reference or
\* the table ids
LacksMetadata(e) ==
    \/ EventMetadata(e).tenant_id = NoVal
    \/ EventMetadata(e).booking_ref = NoVal
    \/ EventMetadata(e).table_ids = NoList

\* C15: a delivery of a verified payment-completed event whose metadata
\* lacks the tenant id, the booking reference or the table ids inserts no
\* Booking row, sends no customer confirmation and is answered 200.
C15_MissingMetadataAcknowledged ==
    \A d \in Deliveries :
        (wh[d].sig = "ok" /\ IsCompleted(wh[d].ev) /\ LacksMetadata(wh[d].ev))
        => /\ wh[d].inserted = 0
           /\ BookingRowsOf(wh[d].ev) = {}
           /\ CustomerConfirmations(wh[d].ev) = {}
           /\ wh[d].pc = "done" => wh[d].status = 200

\* C16: an unexpired Hold and a PAID Booking of one tenant for the same
\* table and date and overlapping intervals coexist only when they carry
\* the same booking reference.
C16_HoldAndBookingSameReference ==
    \A h \in reserved_holds : \A b \in premium_slots :
        ( /\ h.expires_at > now
          /\ b.payment_status = "PAID"
          /\ h.tenant_id = b.tenant_id
          /\ h.table_id = b.table_id
          /\ h.date = b.date
          /\ SlotsOverlap(h, b) )
        => h.booking_ref = b.booking_ref

\* delivery d of a verified event of another type has caused no Booking
\* insert, no ledger row, no consent upsert and no notification
OtherEventIgnored(d) ==
    /\ wh[d].pc \in {"lookup", "done"}
    /\ wh[d].inserted = 0 /\ wh[d].failed = 0
    /\ BookingRowsOf(wh[d].ev) = {}
    /\ existingEvent(wh[d].ev) = {}
    /\ \A m \in emails : m.ev # wh[d].ev

C18_ServerErrorOnlyOnStoreFailure ==
    \A d \in Deliveries :
        (wh[d].sig = "ok" /\ wh[d].pc = "done" /\ wh[d].status = 500) =>
            /\ wh[d].body \in {"Could not check event", "Could not log event"}
            /\ wh[d].inserted = 0 /\ wh[d].failed = 0
            /\ EmailsBy(d) = {}

\* delivery d has responded and got past the ledger insert: the ledger row
\* of its event exists and d was not stopped at the lookup or at the insert
PastLedgerInsert(d) ==
    /\ wh[d].sig = "ok" /\ IsCompleted(wh[d].ev)
    /\ wh[d].pc = "done"
    /\ existingEvent(wh[d].ev) # {}
    /\ wh[d].body \notin {"Could not check event", "Could not log event"}

\* C19: once a verified payment-completed event has been recorded as
\* processing, the delivery is answered 200, whatever the outcome of the
\* Booking inserts, the notifications, the consent upsert and the
\* completed-status update.
C19_AcknowledgedOnceRecorded ==
    \A d \in Deliveries : PastLedgerInsert(d) => wh[d].status = 200

\* C20: the insert loop attempts every table of the event whatever the
\* earlier inserts did: inside the loop one insert has been attempted per
\* table already visited, after the loop one per table of the event; and
\* the success flag is false exactly when an insert has failed.
C20_LoopAttemptsEveryTable ==
    \A d \in Deliveries :
        /\ wh[d].allOK <=> wh[d].failed = 0
        /\ wh[d].pc = "insert" =>
              wh[d].inserted + wh[d].failed = wh[d].i - 1
        /\ wh[d].inserted + wh[d].failed > 0 /\ wh[d].pc # "insert" =>
              wh[d].inserted + wh[d].failed =
                  Len(split(EventMetadata(wh[d].ev).table_ids))

\* of an event for two tables the insert of the first table failed and the
\* row of the second table exists
C20_Witness ==
    \E d \in Deliveries :
        LET tableIds == split(EventMetadata(wh[d].ev).table_ids)
        IN  /\ wh[d].sig = "ok" /\ IsCompleted(wh[d].ev)
            /\ Len(tableIds) = 2
            /\ wh[d].failed = 1 /\ wh[d].inserted = 1 /\ ~ wh[d].allOK
            /\ \A r \in BookingRowsOf(wh[d].ev) :
                  r.table_id = Number(tableIds[2])
            /\ BookingRowsOf(wh[d].ev) # {}

\* C21: the active-Hold lookup is scoped to the requesting tenant: a
\* checkout refused for a conflicting Hold (not for a store error) met an
\* unexpired overlapping Hold of its own tenant on one of its tables and
\* its date.
C21_HoldLookupTenantScoped ==
    \A c \in Checkouts :
        (co[c].pc = "done" /\ co[c].status = 409 /\ co[c].log = "none") =>
            \E h \in reserved_holds :
                /\ h.tenant_id = co[c].req.tenant_id
                /\ h.table_id \in TablesOf(co[c].req)
                /\ h.date = co[c].req.booking_date
                /\ h.expires_at >= co[c].t0
                /\ overlaps(timeToMinutes(co[c].req.booking_time),
                            timeToMinutes(co[c].endTime), h)

\* delivery d2 was received after delivery d1 of the same event had written
\* the ledger row and responded, the row is still at processing, and d2
\* has responded
DeliveredAfterStuck(d1, d2) ==
    /\ Redelivered(d1, d2)
    /\ wh[d1].body \notin {"Could not check event", "Could not log event"}
    /\ LedgerRows(wh[d2].ev, "processing") # {}

\* C22 as stated: once the ledger row of an event exists with status
\* processing and does not reach completed, every later delivery of the
\* event is answered 200 and performs no Booking insert and no
\* notification.
C22_StuckEventNotRetriedAsStated ==
    \A d1, d2 \in Deliveries :
        DeliveredAfterStuck(d1, d2) =>
            /\ wh[d2].status = 200
            /\ wh[d2].inserted = 0 /\ wh[d2].failed = 0
            /\ EmailsBy(d2) = {}

\* C22 amended: every such later delivery performs no Booking insert and
\* no notification; it is answered 200, or 500 when its own ledger lookup
\* fails.
C22_StuckEventNotRetried ==
    \A d1, d2 \in Deliveries :
        DeliveredAfterStuck(d1, d2) =>
            /\ wh[d2].inserted = 0 /\ wh[d2].failed = 0
            /\ EmailsBy(d2) = {}
            /\ \/ wh[d2].status = 200 /\ wh[d2].body = "received"
               \/ /\ wh[d2].status = 500
                  /\ wh[d2].body = "Could not check event"

\* the first delivery had an insert rejected and left the row at
\* processing; the second was answered 200
C22_Witness ==
    \E d1, d2 \in Deliveries :
        /\ DeliveredAfterStuck(d1, d2)
        /\ wh[d1].failed > 0
        /\ wh[d2].status = 200

\* C23: every Hold row written by checkout creation and every Booking row
\* written by the webhook has its start_time strictly before its end_time
\* in minutes since midnight.
C23_StartBeforeEnd ==
    /\ \A h \in reserved_holds :
          timeToMinutes(h.start_time) < timeToMinutes(h.end_time)
    /\ \A b \in premium_slots :
          ~ b.is_manual_booking =>
             timeToMinutes(b.start_time) < timeToMinutes(b.end_time)

\* the time of day 120 minutes after a start time, modulo 24 hours
TwoHoursLater(t) ==
    LET m == (timeToMinutes(t) + 120) % (24 * 60)
    IN  << m \div 60, m % 60 >>

\* the start of a request is at or after 22:01
StartsLate(req) == timeToMinutes(req.booking_time) >= (22 * 60) + 1

\* checkout c2 was entered after c1 had placed its Hold and while that Hold
\* was unexpired, both for a common table on one date, both starting at or
\* after 22:01 and less than 120 minutes apart
LateEnteredUnderHold(c1, c2) ==
    /\ c1 \in co[c2].after
    /\ co[c2].t0 < co[c1].t0 + HoldDuration
    /\ co[c1].req.booking_date = co[c2].req.booking_date
    /\ TablesOf(co[c1].req) \cap TablesOf(co[c2].req) # {}
    /\ StartsLate(co[c1].req) /\ StartsLate(co[c2].req)
    /\ IntervalsIntersect(co[c1].req, co[c2].req)

\* C24: the end time of every request is its start plus 120 minutes modulo
\* 24 hours, and of two requests for one table and date that both start at
\* or after 22:01 less than 120 minutes apart, the second, made while the
\* Hold of the first is unexpired, is refused with a conflict.
C24_WrappedEndAndLateConflict ==
    /\ \A c \in Checkouts :
          co[c].endTime # NoTime =>
             co[c].endTime = TwoHoursLater(co[c].req.booking_time)
    /\ \A c1, c2 \in Checkouts :
          LateEnteredUnderHold(c1, c2) =>
             /\ co[c2].pc \in {"hold_check", "done"}
             /\ ~ co[c2].placed
             /\ co[c2].pc = "done" =>
                   co[c2].status = 409 /\ co[c2].body = "hold_conflict"

\* C25: a Hold is active for the conflict check only while the time of the
\* check is before its expires_at: a checkout refused for a conflicting
\* Hold (not for a store error) met an overlapping Hold for one of its
\* tables and its date whose expires_at is after the time of the check.
C25_HoldAtExpiryDoesNotBlock ==
    \A c \in Checkouts :
        (co[c].pc = "done" /\ co[c].status = 409 /\ co[c].log = "none") =>
            \E h \in reserved_holds :
                /\ h.table_id \in TablesOf(co[c].req)
                /\ h.date = co[c].req.booking_date
                /\ h.expires_at > co[c].t0
                /\ overlaps(timeToMinutes(co[c].req.booking_time),
                            timeToMinutes(co[c].endTime), h)

\* the Hold rows a checkout has written
HoldRowsOf(c) == { h \in reserved_holds : h.by = c }

\* C26: a checkout whose createReservationHold found no conflict and whose
\* insert succeeded has exactly one Hold row per requested table id, each
\* with the request's tenant, booking reference, date, start and end time
\* and with expires_at five minutes after the placement time, and goes on
\* without a conflict; a checkout that has not placed has no Hold row.
C26_OneHoldRowPerTable ==
    \A c \in Checkouts :
        /\ co[c].placed =>
              /\ \A k \in 1..Len(co[c].req.table_ids) :
                    Cardinality({ h \in HoldRowsOf(c) :
                        h.table_id = co[c].req.table_ids[k] }) = 1
              /\ \A h \in HoldRowsOf(c) :
                    /\ h.table_id \in TablesOf(co[c].req)
                    /\ h.tenant_id = co[c].req.tenant_id
                    /\ h.booking_ref = co[c].req.booking_ref
                    /\ h.date = co[c].req.booking_date
                    /\ h.start_time = co[c].req.booking_time
                    /\ h.end_time = co[c].endTime
                    /\ h.expires_at = co[c].t0 + HoldDuration
              /\ co[c].pc \in {"session", "done"}
              /\ co[c].status # 409
        /\ ~ co[c].placed => HoldRowsOf(c) = {}

\* a checkout for two tables has placed its two Hold rows
C26_Witness ==
    \E c \in Checkouts :
        /\ co[c].placed
        /\ Len(co[c].req.table_ids) = 2
        /\ Cardinality(HoldRowsOf(c)) = 2

\* a Hold row for table id t that agrees with the metadata of session x on
\* the date and the start time
HoldRowsFor(x, t) ==
    { h \in reserved_holds :
        /\ h.table_id = t
        /\ h.date = x.metadata.booking_date
        /\ h.start_time = x.metadata.booking_time }

\* C27: every existing payment session has, for every table id in its
\* metadata, a Hold row with the same booking reference, date and start
\* time.
C27_SessionOnlyAfterHolds ==
    \A x \in sessions :
        \A k \in 1..Len(x.metadata.table_ids) :
            \E h \in HoldRowsFor(x, x.metadata.table_ids[k]) :
                h.booking_ref = x.metadata.booking_ref

\* the row delivery d is about to insert is the one for the table at the
\* loop's position in the table list of the checkout that created the
\* session, with that checkout's date, start time, end time in minutes
\* since midnight and tenant id, and the session's booking reference
InsertsForCheckout(d) ==
    LET c == wh[d].ev
        r == co[c].req
        row == slotRow(d)
    IN  /\ wh[d].i <= Len(r.table_ids)
        /\ row.table_id = r.table_ids[wh[d].i]
        /\ row.date = r.booking_date
        /\ row.start_time = r.booking_time
        /\ timeToMinutes(row.end_time) = timeToMinutes(co[c].endTime)
        /\ row.tenant_id = r.tenant_id
        /\ row.booking_ref = EventMetadata(c).booking_ref
        /\ HoldRowsOf(c) # {}

Fulfilling(d) ==
    /\ wh[d].sig = "ok" /\ IsCompleted(wh[d].ev)
    /\ \/ wh[d].inserted + wh[d].failed > 0
       \/ wh[d].body = "uncaught TypeError"

\* all inserts of delivery d succeeded and the ledger row is completed
Fulfilled(d) ==
    /\ wh[d].failed = 0
    /\ wh[d].inserted = Len(split(EventMetadata(wh[d].ev).table_ids))
    /\ LedgerRows(wh[d].ev, "completed") # {}

\* an insert of delivery d failed, the staff conflict alert was sent and the
\* ledger row is left at processing
FulfillmentFailed(d) ==
    /\ wh[d].failed > 0
    /\ sendBookingNotification("BOOKING CONFLICT FAIL", wh[d].ev, d)
          \in emails
    /\ LedgerRows(wh[d].ev, "processing") # {}

\* C29: a delivery goes through its stages in order: only a verified
\* delivery gets to the ledger lookup, only a payment-completed event to
\* the ledger write, the Booking inserts come after the ledger write, and a
\* delivery that got past the ledger write has, when it responds, exactly
\* one of the two outcomes: all inserts succeeded and the ledger row is
\* completed, or an insert failed, the staff conflict alert was sent and
\* the ledger row is at processing.
C29_StagesInOrder ==
    \A d \in Deliveries :
        /\ wh[d].pc \notin {"idle", "done"} => wh[d].sig = "ok"
        /\ wh[d].pc \in {"log", "insert", "notify", "confirm", "optin",
                         "complete"} => IsCompleted(wh[d].ev)
        /\ wh[d].pc \in {"insert", "notify", "confirm", "optin",
                         "complete"} => existingEvent(wh[d].ev) # {}
        /\ (wh[d].pc = "done" /\ Fulfilling(d)) =>
              /\ Fulfilled(d) \/ FulfillmentFailed(d)
              /\ ~ (Fulfilled(d) /\ FulfillmentFailed(d))

\* C30: a step leaves every Booking row as it is, tenant, table, date,
\* start, end and payment status included, or removes it, and it removes it
\* only as the admin delete called with the row's id and the row's tenant.
C30_BookingRowsImmutable ==
    [][ \A b \in premium_slots :
          \/ b \in premium_slots'
          \/ /\ \A b2 \in premium_slots' : b2.id # b.id
             /\ admin'.op = "delete" /\ admin'.status = 200
             /\ admin'.id = b.id /\ admin'.tenant = b.tenant_id ]_vars

\* the admin delete has removed a row the webhook inserted, and another
\* row is still there
C30_Witness ==
    /\ admin.op = "delete" /\ admin.status = 200 /\ admin.removed = 1
    /\ \E d \in Deliveries :
          /\ wh[d].inserted > 0
          /\ \A b \in premium_slots : b.id # admin.id
          /\ \E m \in emails : m.kind = "staff" /\ m.by = d
    /\ premium_slots # {}

\* the Booking rows of checkout c's reference
BookingsOfRef(c) ==
    { b \in premium_slots : b.booking_ref = co[c].req.booking_ref }

\* hold h is in force at time t: the lookup of a request for its table and
\* date entered at t returns it
InForce(h, t) == h \in activeHolds(<< h.table_id >>, h.date, t)

\* C31: a step removes no Hold row and changes none, whatever the step is
\* (payment, fulfilment, admin delete of the Booking included), and a Hold
\* row whose expires_at has not passed is returned by the lookup.
C31_HoldsOnlyGrow ==
    [][ /\ reserved_holds \subseteq reserved_holds'
        /\ \A h \in reserved_holds :
              h.expires_at > now' =>
                 h \in activeHolds(<< h.table_id >>, h.date, now)' ]_vars

\* a hold still in force after its booking was paid, fulfilled and then
\* deleted by the admin
C31_Witness ==
    \E c \in Checkouts, d \in Deliveries :
        /\ wh[d].ev = c /\ wh[d].pc = "done" /\ wh[d].inserted > 0
        /\ admin.op = "delete" /\ admin.removed = 1
        /\ BookingsOfRef(c) = {}
        /\ \E h \in HoldRowsOf(c) : h.expires_at > now /\ InForce(h, now)

\* delivery d has had some inserts of its event succeed and some fail
PartlyInserted(d) ==
    /\ wh[d].sig = "ok" /\ IsCompleted(wh[d].ev)
    /\ wh[d].inserted > 0 /\ wh[d].failed > 0

\* C32: once some inserts of an event have succeeded and some have failed,
\* the inserted rows stay in the Booking table as PAID rows, the event's
\* ledger row is at processing and never completed, and no customer
\* confirmation is sent for the event.
C32_PartialInsertsKept ==
    \A d \in Deliveries :
        PartlyInserted(d) =>
            /\ Cardinality(BookingRowsOf(wh[d].ev)) = wh[d].inserted
            /\ \A r \in BookingRowsOf(wh[d].ev) : r.payment_status = "PAID"
            /\ LedgerRows(wh[d].ev, "processing") # {}
            /\ LedgerRows(wh[d].ev, "completed") = {}
            /\ CustomerConfirmations(wh[d].ev) = {}

\* a delivery has answered after the first of two inserts succeeded and
\* the second failed, and the event was then delivered again
C32_Witness ==
    \E d, d2 \in Deliveries :
        /\ d # d2 /\ wh[d2].ev = wh[d].ev
        /\ wh[d].pc = "done" /\ wh[d2].pc = "done" /\ wh[d2].status = 200
        /\ PartlyInserted(d)
        /\ \E r \in BookingRowsOf(wh[d].ev) :
              r.table_id = Number(split(EventMetadata(wh[d].ev).table_ids)[1])

\* checkout c1 placed its holds and then failed to create the session;
\* checkout c2 is the same request again, entered after c1's holds were
\* placed and before they expire
RetryUnderOwnHold(c1, c2) ==
    /\ c1 # c2
    /\ co[c1].placed /\ co[c1].pc = "done" /\ co[c1].status = 500
    /\ co[c2].req = co[c1].req
    /\ c1 \in co[c2].after
    /\ co[c2].t0 < co[c1].t0 + HoldDuration

\* C33: a checkout whose session creation failed after its holds were
\* placed has answered 500 and its Hold rows are still there; the same
\* request sent again, with the same booking reference, before those holds
\* expire places no hold, gets no session and is answered 409
\* hold_conflict.
C33_RetryRefusedByOwnHold ==
    /\ \A c \in Checkouts :
          (co[c].placed /\ co[c].pc = "done" /\ co[c].status # 200) =>
             /\ co[c].status = 500
             /\ HoldRowsOf(c) = holdRecords(c, co[c].req, co[c].t0,
                                            co[c].endTime)
             /\ HoldRowsOf(c) # {}
    /\ \A c1, c2 \in Checkouts :
          RetryUnderOwnHold(c1, c2) =>
             /\ co[c2].pc \in {"hold_check", "done"}
             /\ ~ co[c2].placed
             /\ \A x \in sessions : x.id # c2
             /\ co[c2].pc = "done" =>
                   co[c2].status = 409 /\ co[c2].body = "hold_conflict"

\* a hold row that was there when checkout c came in, had not expired
\* then, and overlaps c's request on one of its tables
OverlappingActiveHold(c) ==
    { h \in reserved_holds :
        /\ h.by \in co[c].after
        /\ h.expires_at > co[c].t0
        /\ h.date = co[c].req.booking_date
        /\ h.table_id \in TablesOf(co[c].req)
        /\ Earlier(co[c].req.booking_time, h.end_time)
        /\ Earlier(h.start_time, co[c].endTime) }

LedgerInsertRejected(d) == wh[d].body = "Could not log event"

\* delivery d runs its ledger lookup in this step, on a payment-completed
\* event that already has a ledger row
LooksUpLoggedEvent(d) ==
    /\ wh[d].pc = "lookup" /\ wh'[d].pc # "lookup"
    /\ IsCompleted(wh[d].ev)
    /\ existingEvent(wh[d].ev) # {}

\* C35 as stated: a delivery whose ledger insert was rejected is answered
\* 500 and has inserted no Booking and sent no notification, and a delivery
\* that looks the event up after the winning ledger insert is answered 200.
C35_LosingDeliveryAsStated ==
    [][ \A d \in Deliveries :
          /\ LedgerInsertRejected(d)' =>
                (wh[d].status = 500 /\ ~ SideEffects(d))'
          /\ LooksUpLoggedEvent(d) =>
                /\ wh'[d].pc = "done" /\ wh'[d].status = 200
                /\ (~ SideEffects(d))' ]_vars

\* C35 amended: a delivery whose ledger insert was rejected is answered 500
\* and has inserted no Booking and sent no notification; a delivery that
\* looks the event up after the winning ledger insert stops there without
\* an insert or a notification, answered 200 as a duplicate, or 500 when
\* the lookup itself fails.
C35_LosingDelivery ==
    [][ \A d \in Deliveries :
          /\ LedgerInsertRejected(d)' =>
                (wh[d].status = 500 /\ ~ SideEffects(d))'
          /\ LooksUpLoggedEvent(d) =>
                /\ wh'[d].pc = "done"
                /\ \/ wh'[d].status = 200 /\ wh'[d].body = "received"
                   \/ /\ wh'[d].status = 500
                      /\ wh'[d].body = "Could not check event"
                /\ (~ SideEffects(d))' ]_vars

\* two deliveries of one event both passed the lookup; one was rejected at
\* the ledger insert, the other completed the ledger row
C35_Witness ==
    \E d1, d2 \in Deliveries :
        /\ d1 # d2 /\ wh[d1].ev = wh[d2].ev /\ IsCompleted(wh[d1].ev)
        /\ LedgerInsertRejected(d2) /\ wh[d2].status = 500
        /\ d1 \notin wh[d2].after
        /\ wh[d1].pc = "done" /\ wh[d1].status = 200
        /\ LedgerRows(wh[d1].ev, "completed") # {}
        /\ ~ SideEffects(d2)

\* this step is an admin create request answered with status s
AdminCreateAnswers(s) ==
    /\ admin' # admin
    /\ admin'.op = "create" /\ admin'.status = s

\* C36: a manual booking rejected by the store as a uniqueness violation
\* is answered 409 and adds no Booking row and no staff notification; one
\* answered 200 has added exactly one Booking row, PAID and flagged manual,
\* and exactly one staff notification; no other answer adds a row or a
\* notification.
C36_AdminCreateOutcomes ==
    [][ /\ admin'.message = "already_booked" => admin'.status = 409
        /\ \A s \in {400, 409, 500} :
              AdminCreateAnswers(s) =>
                 premium_slots' = premium_slots /\ emails' = emails
        /\ AdminCreateAnswers(200) =>
              /\ premium_slots \subseteq premium_slots'
              /\ emails \subseteq emails'
              /\ Cardinality(premium_slots' \ premium_slots) = 1
              /\ \A b \in premium_slots' \ premium_slots :
                    /\ b.payment_status = "PAID" /\ b.is_manual_booking
                    /\ b.id = admin'.id /\ b.tenant_id = admin'.tenant
              /\ Cardinality(emails' \ emails) = 1
              /\ \A m \in emails' \ emails :
                    m.kind = "staff" /\ m.type = "ADMIN MANUAL" ]_vars

\* a manual booking was created and notified, and a second one for an
\* overlapping time was answered 409
C36_Witness ==
    /\ admin.op = "create" /\ admin.status = 409
    /\ Cardinality(premium_slots) = 1
    /\ Cardinality({ m \in emails : m.type = "ADMIN MANUAL" }) = 1
    /\ \A b \in premium_slots :
          b.payment_status = "PAID" /\ b.is_manual_booking

\* C37: a step keeps every ledger row, with its event id, unchanged or
\* moved from processing to completed; a completed row stays completed;
\* and a row that is new in the ledger enters it at processing.
C37_LedgerStatusMonotone ==
    [][ /\ \A w \in webhook_events :
              \/ w \in webhook_events'
              \/ /\ w.status = "processing"
                 /\ [w EXCEPT !.status = "completed"] \in webhook_events'
        /\ \A w \in webhook_events' :
              existingEvent(w.stripe_event_id) = {} =>
                 w.status = "processing" ]_vars

\* an event's ledger row went from processing to completed, the event was
\* delivered again and answered, and the row is the ledger's only row for
\* the event, still completed
C37_Witness ==
    \E d1, d2 \in Deliveries :
        /\ Redelivered(d1, d2) /\ wh[d2].status = 200
        /\ Cardinality(LedgerRows(wh[d2].ev, "completed")) = 1
        /\ LedgerRows(wh[d2].ev, "processing") = {}

====
